---- MODULE Spec2Model ----
(***************************************************************************)
(* A model of pysynth/wrappers/midi/alsa/midi_alsa.c: the ALSA sequencer   *)
(* wrapper that opens an input port (midi_open) and, on every midi_read,   *)
(* takes one raw snd_seq_event_t from the driver, reports it               *)
(* (midi_process) and copies it into the single static ALSAEvent           *)
(* (create_pack), whose address it returns.                                *)
(*                                                                         *)
(* 32-bit quantities are kept as bit patterns <<hi, lo>> of two 16-bit     *)
(* halves, so that unsigned values above 2^31 and the signed/unsigned      *)
(* reinterpretations made by printf are represented exactly.               *)
(***************************************************************************)
EXTENDS Integers, Sequences, FiniteSets, TLC

\* ------------------------------------------------------------------ bounds

\* The number of midi_read calls a behaviour makes.
MaxReads == 2

\* ------------------------------------------------------------- C data types

NULL == 0
\* The address of the static ALSAEvent `event`.
EVENT_ADDR == 1
\* The address of the event record the driver hands out.
DRV_EV_ADDR == 2
\* A non-null snd_seq_t* as stored by a successful snd_seq_open.
SEQ_HANDLE == 3

SND_SEQ_EVENT_NOTE == 5
SND_SEQ_EVENT_NOTEON == 6
SND_SEQ_EVENT_NOTEOFF == 7
SND_SEQ_EVENT_CONTROLLER == 10
SND_SEQ_EVENT_PGMCHANGE == 11

Half == 65536

\* A 32-bit word as a bit pattern.
W(hi, lo) == <<hi, lo>>

\* The value of a bit pattern read as a signed int (two's complement).
ToSigned(w) ==
    IF w[1] >= 32768 THEN (w[1] - Half) * Half + w[2] ELSE w[1] * Half + w[2]

\* The static `event`: zero-initialised static storage.
ALSAEvent_zero ==
    [type |-> 0, tick_time |-> W(0, 0), time_sec |-> W(0, 0),
     time_nano |-> W(0, 0), note |-> 0, velocity |-> 0, off_velocity |-> 0,
     duration |-> W(0, 0), param |-> W(0, 0), value |-> 0, channel |-> 0]

\* ------------------------------------------ the raw event, as the code reads it
\* A raw event is [type, time, data]: `time` is the 8-byte timestamp union
\* (tick overlays time.tv_sec; time.tv_nsec is the second word), `data` the
\* 12-byte data union: bytes b[1..4] then the words w1 and w2. The note view is
\* channel, note, velocity, off_velocity, duration; the control view is
\* channel, three unused bytes, param, value.

ev_time_tick(ev) == ev.time[1]
ev_time_tv_sec(ev) == ev.time[1]
ev_time_tv_nsec(ev) == ev.time[2]
ev_note_channel(ev) == ev.data.b[1]
ev_note_note(ev) == ev.data.b[2]
ev_note_velocity(ev) == ev.data.b[3]
ev_note_off_velocity(ev) == ev.data.b[4]
ev_note_duration(ev) == ev.data.w1
ev_control_param(ev) == ev.data.w1
ev_control_value(ev) == ToSigned(ev.data.w2)

\* ----------------------------------------------------------------- printf

HexDigits ==
    <<"0", "1", "2", "3", "4", "5", "6", "7", "8", "9", "a", "b", "c", "d", "e", "f">>

DecDigits == <<"0", "1", "2", "3", "4", "5", "6", "7", "8", "9">>

RECURSIVE HexNat(_)
\* %x of a value below 2^16: no leading zeros.
HexNat(n) ==
    IF n < 16 THEN HexDigits[n + 1]
    ELSE HexNat(n \div 16) \o HexDigits[(n % 16) + 1]

\* The low half of a word after a non-zero high half: four digits.
Hex4(n) ==
    HexDigits[(n \div 4096) + 1] \o HexDigits[((n \div 256) % 16) + 1]
      \o HexDigits[((n \div 16) % 16) + 1] \o HexDigits[(n % 16) + 1]

\* %x of a 32-bit pattern.
HexWord(w) == IF w[1] = 0 THEN HexNat(w[2]) ELSE HexNat(w[1]) \o Hex4(w[2])

\* A minimum field width of 2, right-aligned, padded with a space.
Width2(s) == IF Len(s) < 2 THEN " " \o s ELSE s

\* %2x of an unsigned char promoted to int.
Fmt_2x_byte(n) == Width2(HexNat(n))

\* %2x of an int or unsigned int: the bit pattern in hexadecimal.
Fmt_2x_word(w) == Width2(HexWord(w))

RECURSIVE DecNat(_)
DecNat(n) ==
    IF n < 10 THEN DecDigits[n + 1]
    ELSE DecNat(n \div 10) \o DecDigits[(n % 10) + 1]

\* %d of an int. The digits of a negative value are taken without negating
\* it, so that INT_MIN is printed too.
Fmt_d(v) ==
    IF v >= 0 THEN DecNat(v)
    ELSE LET last == (10 - (v % 10)) % 10
             rest == 0 - ((v + last) \div 10)
         IN  "-" \o (IF rest = 0 THEN "" ELSE DecNat(rest)) \o DecDigits[last + 1]

\* %d given an unsigned int: the bit pattern read as an int.
Fmt_d_word(w) == Fmt_d(ToSigned(w))

\* %p of an object address.
Fmt_p(a) == "0x" \o HexNat(a)

\* ---------------------------------------------------------------- midi_open

MSG_OPEN == "\"Could not open sequencer!\""
MSG_NAME == "\"Could not set client name!\""
MSG_PORT == "\"Could not open port!\""

\* What the driver's setup calls may return: a negative errno or success.
DrvResults == {-1, 0}
\* snd_seq_create_simple_port returns the port number or a negative errno.
PortResults == {-1, 0, 1}

\* CHK with exit(1) left out: reports and carries on.
CHK_noExit(r, msg, st) ==
    IF st.status = "running" /\ r < 0
    THEN [st EXCEPT !.out = Append(@, "ERROR: " \o msg)]
    ELSE st

\* #define CHK(stmt, msg): when the statement's value is negative, puts the
\* message (stringified, hence quoted) after "ERROR: " and exit(1). `st` is the
\* process as the statement left it; a process that has exited runs nothing.
CHK(r, msg, st) ==
    IF st.status = "running" /\ r < 0
    THEN [st EXCEPT !.out = Append(@, "ERROR: " \o msg),
                    !.status = "exited", !.exit_code = 1]
    ELSE st

\* A driver call made by midi_open: it is made only by a running process and
\* is recorded with its result.
DrvCall(name, r, st) ==
    IF st.status = "running"
    THEN [st EXCEPT !.calls = Append(@, [name |-> name, result |-> r])]
    ELSE st

\* The body of midi_open, given the three driver results.
midi_open(r_open, r_name, r_port, st0) ==
    LET a1 == DrvCall("snd_seq_open", r_open, [st0 EXCEPT !.calls = <<>>])
        a2 == IF a1.status = "running" /\ r_open >= 0
              THEN [a1 EXCEPT !.seq_handle = SEQ_HANDLE] ELSE a1
        a3 == CHK(r_open, MSG_OPEN, a2)
        b1 == DrvCall("snd_seq_set_client_name", r_name, a3)
        b2 == CHK(r_name, MSG_NAME, b1)
        c1 == DrvCall("snd_seq_create_simple_port", r_port, b2)
        c2 == IF b2.status = "running" THEN [c1 EXCEPT !.in_port = r_port] ELSE c1
    IN  CHK(r_port, MSG_PORT, c2)

\* ------------------------------------------------------------- create_pack

\* create_pack copying the secondary fields only for the matching kind.
create_pack_guarded(event, ev) ==
    LET isNote == ev.type \in {SND_SEQ_EVENT_NOTEON, SND_SEQ_EVENT_NOTEOFF}
        isCtl == ev.type = SND_SEQ_EVENT_CONTROLLER
    IN  [event EXCEPT
            !.type = ev.type,
            !.tick_time = ev_time_tick(ev),
            !.time_sec = ev_time_tv_sec(ev),
            !.time_nano = ev_time_tv_nsec(ev),
            !.note = IF isNote THEN ev_note_note(ev) ELSE @,
            !.velocity = IF isNote THEN ev_note_velocity(ev) ELSE @,
            !.off_velocity = IF isNote THEN ev_note_off_velocity(ev) ELSE @,
            !.duration = IF isNote THEN ev_note_duration(ev) ELSE @,
            !.param = IF isCtl THEN ev_control_param(ev) ELSE @,
            !.value = IF isCtl THEN ev_control_value(ev) ELSE @,
            !.channel = IF isNote THEN ev_note_channel(ev) ELSE @]

\* create_pack with note and velocity exchanged.
create_pack_swapNote(event, ev) ==
    [event EXCEPT
        !.type = ev.type,
        !.tick_time = ev_time_tick(ev),
        !.time_sec = ev_time_tv_sec(ev),
        !.time_nano = ev_time_tv_nsec(ev),
        !.note = ev_note_velocity(ev),
        !.velocity = ev_note_note(ev),
        !.off_velocity = ev_note_off_velocity(ev),
        !.duration = ev_note_duration(ev),
        !.param = ev_control_param(ev),
        !.value = ev_control_value(ev),
        !.channel = ev_note_channel(ev)]

\* create_pack taking the controller value without its sign (as unsigned,
\* saturated to INT_MAX when it does not fit).
create_pack_unsignedValue(event, ev) ==
    [event EXCEPT
        !.type = ev.type,
        !.tick_time = ev_time_tick(ev),
        !.time_sec = ev_time_tv_sec(ev),
        !.time_nano = ev_time_tv_nsec(ev),
        !.note = ev_note_note(ev),
        !.velocity = ev_note_velocity(ev),
        !.off_velocity = ev_note_off_velocity(ev),
        !.duration = ev_note_duration(ev),
        !.param = ev_control_param(ev),
        !.value = IF ev.data.w2[1] >= 32768 THEN 2147483647
                  ELSE ev_control_value(ev),
        !.channel = ev_note_channel(ev)]

\* create_pack collapsing every unrecognised type code to one kind, 0.
create_pack_unknownKind(event, ev) ==
    [event EXCEPT
        !.type = IF ev.type \in {SND_SEQ_EVENT_NOTEON, SND_SEQ_EVENT_NOTEOFF,
                                 SND_SEQ_EVENT_CONTROLLER}
                 THEN ev.type ELSE 0,
        !.tick_time = ev_time_tick(ev),
        !.time_sec = ev_time_tv_sec(ev),
        !.time_nano = ev_time_tv_nsec(ev),
        !.note = ev_note_note(ev),
        !.velocity = ev_note_velocity(ev),
        !.off_velocity = ev_note_off_velocity(ev),
        !.duration = ev_note_duration(ev),
        !.param = ev_control_param(ev),
        !.value = ev_control_value(ev),
        !.channel = ev_note_channel(ev)]

\* create_pack taking the nanoseconds from the seconds field.
create_pack_nanoFromSec(event, ev) ==
    [event EXCEPT
        !.type = ev.type,
        !.tick_time = ev_time_tick(ev),
        !.time_sec = ev_time_tv_sec(ev),
        !.time_nano = ev_time_tv_sec(ev),
        !.note = ev_note_note(ev),
        !.velocity = ev_note_velocity(ev),
        !.off_velocity = ev_note_off_velocity(ev),
        !.duration = ev_note_duration(ev),
        !.param = ev_control_param(ev),
        !.value = ev_control_value(ev),
        !.channel = ev_note_channel(ev)]

\* create_pack leaving off_velocity and duration as the last event set them.
create_pack_staleDuration(event, ev) ==
    [event EXCEPT
        !.type = ev.type,
        !.tick_time = ev_time_tick(ev),
        !.time_sec = ev_time_tv_sec(ev),
        !.time_nano = ev_time_tv_nsec(ev),
        !.note = ev_note_note(ev),
        !.velocity = ev_note_velocity(ev),
        !.param = ev_control_param(ev),
        !.value = ev_control_value(ev),
        !.channel = ev_note_channel(ev)]

\* The assignments of create_pack to the static `event`, in the code's order:
\* every field is assigned on every call, whatever the type.
create_pack(event, ev) ==
    [event EXCEPT
        !.type = ev.type,
        !.tick_time = ev_time_tick(ev),
        !.time_sec = ev_time_tv_sec(ev),
        !.time_nano = ev_time_tv_nsec(ev),
        !.note = ev_note_note(ev),
        !.velocity = ev_note_velocity(ev),
        !.off_velocity = ev_note_off_velocity(ev),
        !.duration = ev_note_duration(ev),
        !.param = ev_control_param(ev),
        !.value = ev_control_value(ev),
        !.channel = ev_note_channel(ev)]

\* The two lines create_pack prints, the first after the type is stored.
create_pack_lines(packed) ==
    <<"Internal event type " \o DecNat(packed.type),
      "New event location " \o Fmt_p(EVENT_ADDR)>>

\* ------------------------------------------------------------ midi_process

\* The report line with number and value printed in decimal.
midi_process_report_decimal(ev) ==
    IF ev.type \in {SND_SEQ_EVENT_NOTEON, SND_SEQ_EVENT_NOTEOFF}
    THEN "[" \o Fmt_d_word(ev_time_tick(ev)) \o "] Note "
           \o (IF ev.type = SND_SEQ_EVENT_NOTEON THEN "on " ELSE "off") \o ": "
           \o Fmt_2x_byte(ev_note_note(ev)) \o " vel("
           \o Fmt_2x_byte(ev_note_velocity(ev)) \o ")"
    ELSE IF ev.type = SND_SEQ_EVENT_CONTROLLER
    THEN "[" \o Fmt_d_word(ev_time_tick(ev)) \o "] Control: "
           \o Fmt_d_word(ev_control_param(ev)) \o " val("
           \o Fmt_d(ev_control_value(ev)) \o ")"
    ELSE "[" \o Fmt_d_word(ev_time_tick(ev)) \o "] Unknown: Unhandled Event Received"

\* The report line of midi_process: the branch is chosen by the raw event's
\* type, and every value is read from the raw event.
midi_process_report(ev) ==
    IF ev.type \in {SND_SEQ_EVENT_NOTEON, SND_SEQ_EVENT_NOTEOFF}
    THEN "[" \o Fmt_d_word(ev_time_tick(ev)) \o "] Note "
           \o (IF ev.type = SND_SEQ_EVENT_NOTEON THEN "on " ELSE "off") \o ": "
           \o Fmt_2x_byte(ev_note_note(ev)) \o " vel("
           \o Fmt_2x_byte(ev_note_velocity(ev)) \o ")"
    ELSE IF ev.type = SND_SEQ_EVENT_CONTROLLER
    THEN "[" \o Fmt_d_word(ev_time_tick(ev)) \o "] Control: "
           \o Fmt_2x_word(ev_control_param(ev)) \o " val("
           \o Fmt_2x_word(ev.data.w2) \o ")"
    ELSE "[" \o Fmt_d_word(ev_time_tick(ev)) \o "] Unknown: Unhandled Event Received"

\* The two lines midi_process prints.
midi_process_lines(ev) ==
    <<"Event type: " \o DecNat(ev.type), midi_process_report(ev)>>

\* --------------------------------------------------------------- midi_read

\* midi_read with create_pack called before midi_process.
midi_read_order_packFirst ==
    <<"midi_read_raw", "create_pack", "midi_process", "midi_read_tail">>

\* The statements of midi_read in the order the code runs them.
midi_read_order ==
    <<"midi_read_raw", "midi_process", "create_pack", "midi_read_tail">>

\* The statement that follows statement p of midi_read.
NextStmt(p) ==
    LET i == CHOOSE k \in 1..Len(midi_read_order) : midi_read_order[k] = p
    IN  midi_read_order[i + 1]

\* The three lines midi_read prints before it returns.
midi_read_lines(event) ==
    <<"--== ALSA Event data: ==--",
      "Type: " \o DecNat(event.type),
      "Note: " \o DecNat(event.note)>>

\* ------------------------------------------------- what the driver delivers

EventTypes ==
    {SND_SEQ_EVENT_NOTE, SND_SEQ_EVENT_NOTEON, SND_SEQ_EVENT_NOTEOFF,
     SND_SEQ_EVENT_CONTROLLER, SND_SEQ_EVENT_PGMCHANGE}

\* Timestamp unions: <<tick or seconds, nanoseconds>>.
TimeUnions ==
    {<<W(0, 100), W(0, 0)>>,
     <<W(0, 50), W(15258, 51711)>>,
     <<W(65535, 65535), W(0, 1)>>}

\* Data unions.
DataUnions ==
    {[b |-> <<0, 64, 127, 0>>, w1 |-> W(0, 0), w2 |-> W(0, 0)],
     [b |-> <<9, 60, 16, 64>>, w1 |-> W(0, 480), w2 |-> W(0, 0)],
     [b |-> <<0, 0, 0, 0>>, w1 |-> W(0, 7), w2 |-> W(0, 100)],
     [b |-> <<15, 0, 0, 0>>, w1 |-> W(0, 123), w2 |-> W(65535, 65535)],
     [b |-> <<1, 2, 3, 4>>, w1 |-> W(65535, 65535), w2 |-> W(32768, 0)]}

RawEvents == [type : EventTypes, time : TimeUnions, data : DataUnions]

\* The driver's event record before any event was delivered.
RawEvent_zero ==
    [type |-> 0, time |-> <<W(0, 0), W(0, 0)>>,
     data |-> [b |-> <<0, 0, 0, 0>>, w1 |-> W(0, 0), w2 |-> W(0, 0)]]

\* What a read through a null event pointer may find, should it not fault.
NullPage ==
    {RawEvent_zero,
     [type |-> SND_SEQ_EVENT_NOTEON, time |-> <<W(0, 9), W(0, 9)>>,
      data |-> [b |-> <<3, 33, 44, 55>>, w1 |-> W(0, 66), w2 |-> W(0, 77)]]}

\* ------------------------------------------------------------------- state

VARIABLES
    status,      \* "running", "exited" (exit was called) or "crashed" (a signal)
    exit_code,   \* the argument of exit, -1 while none was made
    seq_handle,  \* static snd_seq_t *seq_handle
    in_port,     \* static int in_port
    event,       \* static struct ALSAEvent event
    pc,          \* "idle" between calls, else the statement of midi_read to run
    thing,       \* midi_read's local: the pointer midi_read_raw returned
    drvbuf,      \* the raw event at DRV_EV_ADDR
    out,         \* stdout since the current (or last) midi_read was entered
    ret,         \* the pointer the last midi_read returned, NULL before
    calls,       \* the driver calls of the last midi_open, with their results
    nreads,      \* midi_read calls that returned
    prev,        \* `event` as it was when the current (or last) midi_read was entered
    prevThing,   \* `thing` of the midi_read before
    prevRet      \* `ret` when the current (or last) midi_read was entered

vars ==
    <<status, exit_code, seq_handle, in_port, event, pc, thing, drvbuf, out,
      ret, calls, nreads, prev, prevThing, prevRet>>

Init ==
    /\ status = "running"
    /\ exit_code = -1
    /\ seq_handle = NULL
    /\ in_port = 0
    /\ event = ALSAEvent_zero
    /\ pc = "idle"
    /\ thing = NULL
    /\ drvbuf = RawEvent_zero
    /\ out = <<>>
    /\ ret = NULL
    /\ calls = <<>>
    /\ nreads = 0
    /\ prev = ALSAEvent_zero
    /\ prevThing = NULL
    /\ prevRet = NULL

\* What *p holds for the event pointer p.
Deref(p) == IF p = NULL THEN NullPage ELSE {drvbuf}

\* midi_open(), called between reads.
MidiOpen ==
    /\ status = "running"
    /\ pc = "idle"
    /\ \E r_open \in DrvResults, r_name \in DrvResults, r_port \in PortResults :
         LET st == midi_open(r_open, r_name, r_port,
                             [status |-> status, exit_code |-> exit_code,
                              out |-> out, calls |-> calls,
                              seq_handle |-> seq_handle, in_port |-> in_port])
         IN  /\ status' = st.status
             /\ exit_code' = st.exit_code
             /\ out' = st.out
             /\ calls' = st.calls
             /\ seq_handle' = st.seq_handle
             /\ in_port' = st.in_port
    /\ UNCHANGED <<event, pc, thing, drvbuf, ret, nreads, prev, prevThing, prevRet>>

\* midi_read() is entered and midi_read_raw() runs on an open sequencer: the
\* driver either delivers an event, or returns an error and leaves ev NULL.
MidiReadRaw ==
    /\ status = "running"
    /\ pc = "idle"
    /\ nreads < MaxReads
    /\ seq_handle # NULL
    /\ \/ \E e \in RawEvents : thing' = DRV_EV_ADDR /\ drvbuf' = e
       \/ thing' = NULL /\ drvbuf' = drvbuf
    /\ pc' = NextStmt("midi_read_raw")
    /\ out' = <<>>
    /\ prev' = event
    /\ prevThing' = thing
    /\ prevRet' = ret
    /\ UNCHANGED <<status, exit_code, seq_handle, in_port, event, ret, calls, nreads>>

\* midi_read() before any successful midi_open(): snd_seq_event_input is given
\* a null handle, which the library asserts against and otherwise
\* dereferences; the process is killed either way.
MidiReadRawNoHandle ==
    /\ status = "running"
    /\ pc = "idle"
    /\ nreads < MaxReads
    /\ seq_handle = NULL
    /\ status' = "crashed"
    /\ UNCHANGED <<exit_code, seq_handle, in_port, event, pc, thing, drvbuf, out,
                   ret, calls, nreads, prev, prevThing, prevRet>>

\* midi_process(thing).
MidiProcess ==
    /\ status = "running"
    /\ pc = "midi_process"
    /\ \E ev \in Deref(thing) : out' = out \o midi_process_lines(ev)
    /\ pc' = NextStmt("midi_process")
    /\ UNCHANGED <<status, exit_code, seq_handle, in_port, event, thing, drvbuf,
                   ret, calls, nreads, prev, prevThing, prevRet>>

\* create_pack(thing).
CreatePack ==
    /\ status = "running"
    /\ pc = "create_pack"
    /\ \E ev \in Deref(thing) :
         /\ event' = create_pack(event, ev)
         /\ out' = out \o create_pack_lines(event')
    /\ pc' = NextStmt("create_pack")
    /\ UNCHANGED <<status, exit_code, seq_handle, in_port, thing, drvbuf, ret,
                   calls, nreads, prev, prevThing, prevRet>>

\* A read through the null pointer in midi_process or create_pack faults.
NullDerefFault ==
    /\ status = "running"
    /\ pc \in {"midi_process", "create_pack"}
    /\ thing = NULL
    /\ status' = "crashed"
    /\ UNCHANGED <<exit_code, seq_handle, in_port, event, pc, thing, drvbuf, out,
                   ret, calls, nreads, prev, prevThing, prevRet>>

\* The end of midi_read(): the three prints and return &event.
MidiReadTail ==
    /\ status = "running"
    /\ pc = "midi_read_tail"
    /\ out' = out \o midi_read_lines(event)
    /\ ret' = EVENT_ADDR
    /\ nreads' = nreads + 1
    /\ pc' = "idle"
    /\ UNCHANGED <<status, exit_code, seq_handle, in_port, event, thing, drvbuf,
                   calls, prev, prevThing, prevRet>>

Next ==
    \/ MidiOpen
    \/ MidiReadRaw
    \/ MidiReadRawNoHandle
    \/ MidiProcess
    \/ CreatePack
    \/ NullDerefFault
    \/ MidiReadTail

Spec == Init /\ [][Next]_vars

\* =================================================================== claims

NoteClass == {SND_SEQ_EVENT_NOTEON, SND_SEQ_EVENT_NOTEOFF}
Recognised == NoteClass \cup {SND_SEQ_EVENT_CONTROLLER}

\* The driver delivered an event to the current (or last) midi_read and
\* create_pack has run on it.
Packed ==
    /\ thing # NULL
    /\ \/ pc = "midi_read_tail"
       \/ pc = "idle" /\ nreads > 0

\* The last two midi_read calls both returned, each with a delivered event.
TwoReads ==
    /\ pc = "idle"
    /\ nreads >= 2
    /\ thing # NULL
    /\ prevThing # NULL

\* Every field of the raw event ev as create_pack is to store it.
SlotOf(ev) ==
    [type |-> ev.type, tick_time |-> ev.time[1], time_sec |-> ev.time[1],
     time_nano |-> ev.time[2], note |-> ev.data.b[2], velocity |-> ev.data.b[3],
     off_velocity |-> ev.data.b[4], duration |-> ev.data.w1,
     param |-> ev.data.w1, value |-> ToSigned(ev.data.w2),
     channel |-> ev.data.b[1]]

\* C1: after midi_read of a note-on or note-off raw event the slot's type is
\* the note-on or note-off code of the raw event, and its note, velocity and
\* channel are those of the raw event's note payload.
C1_NoteFields ==
    (Packed /\ drvbuf.type \in NoteClass) =>
        /\ event.type = drvbuf.type
        /\ (drvbuf.type = SND_SEQ_EVENT_NOTEON) = (event.type = SND_SEQ_EVENT_NOTEON)
        /\ event.note = ev_note_note(drvbuf)
        /\ event.velocity = ev_note_velocity(drvbuf)
        /\ event.channel = ev_note_channel(drvbuf)

\* C1 witness: a note-on with tick 100, note 0x40, velocity 0x7f, channel 0 has
\* been read and reported.
C1_Witness ==
    /\ Packed
    /\ drvbuf.type = SND_SEQ_EVENT_NOTEON
    /\ event.type = SND_SEQ_EVENT_NOTEON
    /\ event.tick_time = W(0, 100)
    /\ event.note = 64
    /\ event.velocity = 127
    /\ event.channel = 0
    /\ out[2] = "[100] Note on : 40 vel(7f)"

\* C2: after midi_read of a controller raw event the slot's type is the
\* controller code and its param and value are those of the raw event's
\* control payload.
C2_ControlFields ==
    (Packed /\ drvbuf.type = SND_SEQ_EVENT_CONTROLLER) =>
        /\ event.type = SND_SEQ_EVENT_CONTROLLER
        /\ event.param = ev_control_param(drvbuf)
        /\ event.value = ev_control_value(drvbuf)

\* C2 witness: a controller event with a negative value (-1) has been read.
C2_Witness ==
    /\ Packed
    /\ drvbuf.type = SND_SEQ_EVENT_CONTROLLER
    /\ drvbuf.data.w2 = W(65535, 65535)
    /\ event.param = W(0, 123)
    /\ event.value = -1

C4_LastWriteWins ==
    TwoReads =>
        /\ ret = prevRet
        /\ ret = EVENT_ADDR
        /\ event = SlotOf(drvbuf)

\* C4 witness: two reads returned, and B differs from A in every field.
C4_Witness ==
    /\ TwoReads
    /\ \A f \in DOMAIN event : event[f] # prev[f]
    /\ prev.type = SND_SEQ_EVENT_NOTEON

ErrLines == {"ERROR: " \o MSG_OPEN, "ERROR: " \o MSG_NAME, "ERROR: " \o MSG_PORT}

\* The diagnostic that names the setup step.
ErrLineOf(name) ==
    CASE name = "snd_seq_open" -> "ERROR: \"Could not open sequencer!\""
      [] name = "snd_seq_set_client_name" -> "ERROR: \"Could not set client name!\""
      [] name = "snd_seq_create_simple_port" -> "ERROR: \"Could not open port!\""

\* A setup step of the last midi_open failed: it is the last step made, the
\* process has exited with a non-zero status and the one diagnostic printed is
\* that step's.
C5_FailedStep ==
    \A i \in 1..Len(calls) :
        calls[i].result < 0 =>
            /\ i = Len(calls)
            /\ status = "exited"
            /\ exit_code > 0
            /\ Len(out) >= 1
            /\ out[Len(out)] = ErrLineOf(calls[i].name)
            /\ Cardinality({k \in 1..Len(out) : out[k] \in ErrLines}) = 1

\* C5: a failing step of midi_open prints the one diagnostic naming that step
\* and exits with a non-zero status, no later setup step runs, and the exited
\* process takes no further step (no read, no retry).
C5_FailFast == [](C5_FailedStep) /\ [][status # "exited"]_vars

\* C5 witness: the port could not be created after the sequencer was opened
\* and named, and the process has exited.
C5_Witness ==
    /\ status = "exited"
    /\ Len(calls) = 3
    /\ calls[1].result >= 0
    /\ calls[3].name = "snd_seq_create_simple_port"
    /\ calls[3].result < 0
    /\ out[Len(out)] = "ERROR: \"Could not open port!\""

\* midi_process has printed its report of the delivered event.
Reported ==
    /\ thing # NULL
    /\ pc \in {"create_pack", "midi_read_tail", "idle"}
    /\ Len(out) >= 2

RECURSIVE DecWord(_)
\* An unsigned 32-bit value in decimal.
DecWord(w) ==
    LET r == w[1] % 10
        low == r * Half + w[2]
        q == W(w[1] \div 10, low \div 10)
    IN  IF w[1] = 0 /\ w[2] < 10 THEN DecDigits[w[2] + 1]
        ELSE DecWord(q) \o DecDigits[(low % 10) + 1]

\* C6 as claimed: the report line of a controller event shows the tick, the
\* number and the value as given (in decimal), as in "[50] Control: 7 val(100)".
C6_DecimalReport ==
    (Reported /\ drvbuf.type = SND_SEQ_EVENT_CONTROLLER) =>
        out[2] = "[" \o DecWord(ev_time_tick(drvbuf)) \o "] Control: "
                   \o DecWord(ev_control_param(drvbuf)) \o " val("
                   \o Fmt_d(ev_control_value(drvbuf)) \o ")"

\* C6 as amended: the report line of a controller event shows the tick in
\* decimal (read as an int) and the number and the value in hexadecimal, each
\* right-aligned in a field of width 2; tick 50, number 7, value 100 give
\* "[50] Control:  7 val(64)".
C6_HexReport ==
    (Reported /\ drvbuf.type = SND_SEQ_EVENT_CONTROLLER) =>
        /\ out[2] = "[" \o Fmt_d(ToSigned(drvbuf.time[1])) \o "] Control: "
                      \o Width2(HexWord(drvbuf.data.w1)) \o " val("
                      \o Width2(HexWord(drvbuf.data.w2)) \o ")"
        /\ (drvbuf.time[1] = W(0, 50) /\ drvbuf.data.w1 = W(0, 7)
              /\ drvbuf.data.w2 = W(0, 100))
             => out[2] = "[50] Control:  7 val(64)"
        /\ (drvbuf.time[1] = W(65535, 65535) /\ drvbuf.data.w1 = W(0, 123)
              /\ drvbuf.data.w2 = W(65535, 65535))
             => out[2] = "[-1] Control: 7b val(ffffffff)"

\* C6 witness: the controller event with tick 50, number 7 and value 100 has
\* been reported.
C6_Witness ==
    /\ Reported
    /\ drvbuf.type = SND_SEQ_EVENT_CONTROLLER
    /\ ev_time_tick(drvbuf) = W(0, 50)
    /\ ev_control_param(drvbuf) = W(0, 7)
    /\ ev_control_value(drvbuf) = 100
    /\ out[2] = "[50] Control:  7 val(64)"

\* C7 as claimed: a read of a raw event that is not note-class leaves the
\* slot's channel, note and velocity as they were, and a read of one that is
\* not a controller leaves its param and value as they were.
C7_WrittenOnlyForKind ==
    Packed =>
        /\ drvbuf.type \notin NoteClass =>
             /\ event.channel = prev.channel
             /\ event.note = prev.note
             /\ event.velocity = prev.velocity
        /\ drvbuf.type # SND_SEQ_EVENT_CONTROLLER =>
             /\ event.param = prev.param
             /\ event.value = prev.value

\* C7 as amended: every read, whatever the raw type, writes the slot's
\* channel, note and velocity from the note view of the raw data union and
\* its param and value from the control view.
C7_WrittenOnEveryRead ==
    Packed =>
        /\ event.channel = drvbuf.data.b[1]
        /\ event.note = drvbuf.data.b[2]
        /\ event.velocity = drvbuf.data.b[3]
        /\ event.param = drvbuf.data.w1
        /\ event.value = ToSigned(drvbuf.data.w2)

\* C7 witness: a read of a raw event that is neither note-class nor a
\* controller has changed the slot's note, velocity, channel, param and value.
C7_Witness ==
    /\ Packed
    /\ drvbuf.type = SND_SEQ_EVENT_PGMCHANGE
    /\ event.note # prev.note
    /\ event.velocity # prev.velocity
    /\ event.channel # prev.channel
    /\ event.param # prev.param
    /\ event.value # prev.value

\* C8: after midi_read of any raw event the slot's tick_time, time_sec and
\* time_nano are the raw event's tick, seconds and nanoseconds.
C8_TimeFields ==
    Packed =>
        /\ event.tick_time = ev_time_tick(drvbuf)
        /\ event.time_sec = ev_time_tv_sec(drvbuf)
        /\ event.time_nano = ev_time_tv_nsec(drvbuf)

\* C8 witness: an unrecognised raw event with tick 0xffffffff and 1 ns has
\* been read.
C8_Witness ==
    /\ Packed
    /\ drvbuf.type = SND_SEQ_EVENT_NOTE
    /\ event.tick_time = W(65535, 65535)
    /\ event.time_nano = W(0, 1)

C10_NeverNull ==
    pc \in {"midi_process", "create_pack"} => thing # NULL

====
